---- MODULE Spec2Model ----
(***************************************************************************)
(* A model of src/src/lib.rs: the MSite record (one methylation site),     *)
(* its constructors new and build, the derived counts n_meth / n_umeth,    *)
(* the context predicates, is_mate_of, add, the mutation marker, the       *)
(* derived ordering and the Display implementation.                        *)
(*                                                                         *)
(* Text is a sequence of one-character strings.  A u64 is a natural below  *)
(* 2^WordBits; an f64 is an exact rational [n, d] (n = d = 0 encodes NaN),  *)
(* and the one place where an f64 loses integers, the conversion `as f64`  *)
(* of a u64, rounds to MantBits significant bits (ties to even).  The      *)
(* widths are scaled down from 64 and 53 so that every value fits a TLC    *)
(* integer; MantBits < WordBits is kept.                                   *)
(***************************************************************************)
EXTENDS Integers, Sequences, FiniteSets, TLC

\* Width of the modelled u64 (64 in the program).
WordBits == 5
\* Significand width of the modelled f64 (53 in the program).
MantBits == 3
\* Number of operations applied in one behaviour.
MaxOps == 3

U64_MAX == 2^WordBits - 1

TAB == "\t"
SPACE == " "

-----------------------------------------------------------------------------
(* Bytes and text *)

\* The ASCII code of the characters the modelled inputs are written in.
ByteOf(c) ==
    CASE c = TAB -> 9
      [] c = SPACE -> 32
      [] c = "+" -> 43
      [] c = "-" -> 45
      [] c = "." -> 46
      [] c = "0" -> 48
      [] c = "1" -> 49
      [] c = "2" -> 50
      [] c = "3" -> 51
      [] c = "4" -> 52
      [] c = "5" -> 53
      [] c = "6" -> 54
      [] c = "7" -> 55
      [] c = "8" -> 56
      [] c = "9" -> 57
      [] c = "C" -> 67
      [] c = "G" -> 71
      [] c = "H" -> 72
      [] c = "N" -> 78
      [] c = "a" -> 97
      [] c = "c" -> 99
      [] c = "h" -> 104
      [] c = "p" -> 112
      [] c = "r" -> 114
      [] c = "x" -> 120

IsAsciiDigit(c) == ByteOf(c) >= 48 /\ ByteOf(c) <= 57

DigitValue(c) == ByteOf(c) - 48

DigitChar(v) == CHOOSE c \in {"0", "1", "2", "3", "4", "5", "6", "7", "8", "9"} : DigitValue(c) = v

\* char::is_whitespace on the modelled alphabet.
IsWhitespace(c) == c = TAB \/ c = SPACE

RECURSIVE SplitFrom(_, _, _, _)
SplitFrom(s, i, cur, acc) ==
    IF i > Len(s)
      THEN (IF cur = <<>> THEN acc ELSE Append(acc, cur))
      ELSE IF IsWhitespace(s[i])
             THEN SplitFrom(s, i + 1, <<>>, IF cur = <<>> THEN acc ELSE Append(acc, cur))
             ELSE SplitFrom(s, i + 1, Append(cur, s[i]), acc)

\* str::split_whitespace: the maximal runs of non-whitespace, in order.
split_whitespace(s) == SplitFrom(s, 1, <<>>, <<>>)

RECURSIVE JoinFrom(_, _, _)
JoinFrom(parts, sep, i) ==
    IF i > Len(parts) THEN <<>>
    ELSE IF i = Len(parts) THEN parts[i]
    ELSE parts[i] \o sep \o JoinFrom(parts, sep, i + 1)

\* The format string "{}\t{}\t{}\t{}\t{}\t{}": the parts with sep between them.
Join(parts, sep) == JoinFrom(parts, sep, 1)

-----------------------------------------------------------------------------
(* Numbers *)

Max(a, b) == IF a >= b THEN a ELSE b

Abs(a) == IF a < 0 THEN -a ELSE a

RECURSIVE GCD(_, _)
GCD(a, b) == IF b = 0 THEN a ELSE GCD(b, a % b)

\* The f64 with value n / d (d > 0), in lowest terms.
Ratio(n, d) == LET g == GCD(Abs(n), d) IN [n |-> n \div g, d |-> d \div g]

F64_NAN == [n |-> 0, d |-> 0]
F64_ZERO == [n |-> 0, d |-> 1]
F64_ONE == [n |-> 1, d |-> 1]

is_nan(x) == x.n = 0 /\ x.d = 0

\* The f64 operators < and >: false as soon as one side is NaN.
F64Lt(x, y) == ~is_nan(x) /\ ~is_nan(y) /\ x.n * y.d < y.n * x.d
F64Gt(x, y) == F64Lt(y, x)

\* Number of binary digits of n (0 for 0).
RECURSIVE BitLen(_)
BitLen(n) == IF n = 0 THEN 0 ELSE 1 + BitLen(n \div 2)

\* `n as f64` for a u64 n: the nearest value with MantBits significant
\* bits, ties to the even significand.  The result is an integer.
U64AsF64(n) ==
    IF BitLen(n) <= MantBits THEN n
    ELSE LET unit == 2^(BitLen(n) - MantBits)
             q == n \div unit
             r == n % unit
             up == 2 * r > unit \/ (2 * r = unit /\ q % 2 = 1)
         IN  (IF up THEN q + 1 ELSE q) * unit

\* f64::round of the finite value n / d: nearest integer, halves away from zero.
RoundHalfAway(n, d) ==
    IF n >= 0 THEN (2 * n + d) \div (2 * d)
    ELSE -((2 * (-n) + d) \div (2 * d))

\* (x as f64) / (y as f64) for u64 x and y >= 1.
F64Div(x, y) == Ratio(U64AsF64(x), U64AsF64(y))

\* `x as u64` for an f64 x: NaN goes to 0 and the cast saturates.
F64AsU64(v) == IF v < 0 THEN 0 ELSE IF v > U64_MAX THEN U64_MAX ELSE v

-----------------------------------------------------------------------------
(* Parsing the tokens of a line *)

RECURSIVE ParseDigits(_, _, _)
ParseDigits(s, i, acc) ==
    IF i > Len(s) THEN acc
    ELSE IF ~IsAsciiDigit(s[i]) THEN -1
    ELSE LET v == acc * 10 + DigitValue(s[i])
         IN  IF v > U64_MAX THEN -1 ELSE ParseDigits(s, i + 1, v)

\* part.parse::<u64>(): an optional '+', then one or more decimal digits
\* whose value fits the width; anything else (a '-', no digit, a value
\* past U64_MAX) is an error.
ParseU64(tok) ==
    LET body == IF tok # <<>> /\ tok[1] = "+" THEN Tail(tok) ELSE tok
        r == IF body = <<>> THEN -1 ELSE ParseDigits(body, 1, 0)
    IN  [ok |-> r >= 0, v |-> Max(r, 0)]

\* part.parse::<char>(): the token must be exactly one character.
ParseChar(tok) == [ok |-> Len(tok) = 1, v |-> IF Len(tok) = 1 THEN tok[1] ELSE "+"]

AllDigits(s) == \A i \in 1..Len(s) : IsAsciiDigit(s[i])

RECURSIVE DecValue(_, _, _)
DecValue(s, i, acc) ==
    IF i > Len(s) THEN acc ELSE DecValue(s, i + 1, acc * 10 + DigitValue(s[i]))

RECURSIVE Pow10(_)
Pow10(k) == IF k = 0 THEN 1 ELSE 10 * Pow10(k - 1)

\* part.parse::<f64>() on tokens without an exponent: an optional sign,
\* then either NaN or digits with at most one '.', at least one digit in
\* all.  (The sign of a zero is not kept.)
ParseF64(tok) ==
    LET signed == tok # <<>> /\ tok[1] \in {"+", "-"}
        neg == tok # <<>> /\ tok[1] = "-"
        body == IF signed THEN Tail(tok) ELSE tok
        dots == {i \in 1..Len(body) : body[i] = "."}
        dot == IF dots = {} THEN Len(body) + 1 ELSE CHOOSE i \in dots : TRUE
        ip == SubSeq(body, 1, dot - 1)
        fp == SubSeq(body, dot + 1, Len(body))
        mag == DecValue(ip \o fp, 1, 0)
    IN  IF body = <<"N", "a", "N">> THEN [ok |-> TRUE, v |-> F64_NAN]
        ELSE IF Cardinality(dots) <= 1 /\ AllDigits(ip) /\ AllDigits(fp) /\ Len(ip) + Len(fp) >= 1
               THEN [ok |-> TRUE, v |-> Ratio(IF neg THEN -mag ELSE mag, Pow10(Len(fp)))]
               ELSE [ok |-> FALSE, v |-> F64_ZERO]

-----------------------------------------------------------------------------
(* MSite *)

MSite(chrom, pos, strand, context, meth, n_reads) ==
    [chrom |-> chrom, pos |-> pos, strand |-> strand, context |-> context,
     meth |-> meth, n_reads |-> n_reads]

new == MSite(<<>>, 0, "+", <<>>, F64_ZERO, 0)

BuildErr(msg) == [res |-> "err", msg |-> msg, site |-> new]
BuildPanic == [res |-> "panic", msg |-> "unwrap on an Err value", site |-> new]

\* The range test of build, `meth < 0.0 || meth > 1.0`.
MethOutOfRange(meth) == F64Lt(meth, F64_ZERO) \/ F64Gt(meth, F64_ONE)

BuildNReads(parts, chrom, pos, strand, context, meth) ==
    IF Len(parts) < 6 THEN BuildErr("failed to extract n_reads")
    ELSE IF ~ParseU64(parts[6]).ok THEN BuildPanic
    ELSE [res |-> "ok", msg |-> "",
          site |-> MSite(chrom, pos, strand, context, meth, ParseU64(parts[6]).v)]

\* BuildMeth with the range test moved after the conversion of n_reads.
BuildMeth_RangeAfterNReads(parts, chrom, pos, strand, context) ==
    IF Len(parts) < 5 THEN BuildErr("failed to extract meth")
    ELSE IF ~ParseF64(parts[5]).ok THEN BuildPanic
    ELSE LET r == BuildNReads(parts, chrom, pos, strand, context, ParseF64(parts[5]).v)
         IN  IF r.res = "ok" /\ MethOutOfRange(ParseF64(parts[5]).v)
               THEN BuildErr("methylation level not in range")
               ELSE r

BuildMeth(parts, chrom, pos, strand, context) ==
    IF Len(parts) < 5 THEN BuildErr("failed to extract meth")
    ELSE IF ~ParseF64(parts[5]).ok THEN BuildPanic
    ELSE IF MethOutOfRange(ParseF64(parts[5]).v) THEN BuildErr("methylation level not in range")
    ELSE BuildNReads(parts, chrom, pos, strand, context, ParseF64(parts[5]).v)

\* BuildStrand with the context stored without a trailing 'x'.
BuildStrand_StripsMarker(parts, chrom, pos) ==
    IF Len(parts) < 3 THEN BuildErr("failed to extract strand")
    ELSE IF ~ParseChar(parts[3]).ok THEN BuildPanic
    ELSE IF Len(parts) < 4 THEN BuildErr("failed to extract context")
    ELSE BuildMeth(parts, chrom, pos, ParseChar(parts[3]).v,
                   IF parts[4][Len(parts[4])] = "x"
                     THEN SubSeq(parts[4], 1, Len(parts[4]) - 1)
                     ELSE parts[4])

BuildStrand(parts, chrom, pos) ==
    IF Len(parts) < 3 THEN BuildErr("failed to extract strand")
    ELSE IF ~ParseChar(parts[3]).ok THEN BuildPanic
    ELSE IF Len(parts) < 4 THEN BuildErr("failed to extract context")
    ELSE BuildMeth(parts, chrom, pos, ParseChar(parts[3]).v, parts[4])

\* MSite::build: the tokens are taken and converted in order; a missing
\* token or an out-of-range meth returns Err, a failed conversion unwraps
\* an Err and panics.
build(s) ==
    LET parts == split_whitespace(s)
    IN  IF Len(parts) < 1 THEN BuildErr("failed to extract chrom")
        ELSE IF Len(parts) < 2 THEN BuildErr("failed to extract pos")
        ELSE IF ~ParseU64(parts[2]).ok THEN BuildPanic
        ELSE BuildStrand(parts, parts[1], ParseU64(parts[2]).v)

\* MSite::n_meth: ((n_reads as f64) * meth).round() as u64.
n_meth(s) ==
    IF is_nan(s.meth) THEN 0
    ELSE F64AsU64(RoundHalfAway(U64AsF64(s.n_reads) * s.meth.n, s.meth.d))

\* MSite::n_umeth: n_reads - n_meth(); with overflow checks the
\* subtraction panics below zero, without them it wraps.
n_umeth(s, checks) ==
    IF n_meth(s) <= s.n_reads THEN [res |-> "ok", v |-> s.n_reads - n_meth(s)]
    ELSE IF checks THEN [res |-> "panic", v |-> 0]
    ELSE [res |-> "ok", v |-> (s.n_reads - n_meth(s)) % (2^WordBits)]

HasPrefix3(context, c1, c2, c3) ==
    Len(context) >= 3 /\ context[1] = c1 /\ context[2] = c2 /\ context[3] = c3

is_cpg(s) == HasPrefix3(s.context, "C", "p", "G")
is_ccg(s) == HasPrefix3(s.context, "C", "C", "G")
is_cxg(s) == HasPrefix3(s.context, "C", "X", "G")
is_chh(s) == HasPrefix3(s.context, "C", "H", "H")

\* MSite::is_mate_of: self.pos + 1 is evaluated first; at U64_MAX it
\* panics with overflow checks and wraps to 0 without.
is_mate_of(self, second, checks) ==
    IF self.pos = U64_MAX /\ checks THEN [res |-> "panic", v |-> FALSE]
    ELSE [res |-> "ok",
          v |-> /\ (self.pos + 1) % (2^WordBits) = second.pos
                /\ is_cpg(self) /\ is_cpg(second)
                /\ self.strand = "+" /\ second.strand = "-"]

\* MSite::is_mutated: the last byte of a non-empty context is 'x'.
is_mutated(s) ==
    IF Len(s.context) = 0 THEN FALSE ELSE s.context[Len(s.context)] = "x"

\* set_unmutated without the is_mutated test: the last byte is popped.
set_unmutated_unconditional(s) ==
    [s EXCEPT !.context = SubSeq(s.context, 1, Len(s.context) - 1)]

\* MSite::set_unmutated: pop the last byte of a mutated context.
set_unmutated(s) ==
    IF is_mutated(s)
      THEN [s EXCEPT !.context = SubSeq(s.context, 1, Len(s.context) - 1)]
      ELSE s

\* AddMarker without the test of self: 'x' is pushed whenever other is mutated.
AddMarker_IgnoresSelf(self, other) ==
    IF is_mutated(other)
      THEN [self EXCEPT !.context = Append(self.context, "x")]
      ELSE self

\* The push of add (lines 156-158).
AddMarker(self, other) ==
    IF ~is_mutated(self) /\ is_mutated(other)
      THEN [self EXCEPT !.context = Append(self.context, "x")]
      ELSE self

\* MSite::add.  The two sums are u64 additions: past U64_MAX they panic
\* with overflow checks (after the push) and wrap without.
add(self, other, checks) ==
    LET marked == AddMarker(self, other)
        c_sum == n_meth(marked) + n_meth(other)
        r_sum == marked.n_reads + other.n_reads
        total_c_reads == c_sum % (2^WordBits)
        n_reads == r_sum % (2^WordBits)
    IN  IF checks /\ (c_sum > U64_MAX \/ r_sum > U64_MAX)
          THEN [res |-> "panic", site |-> marked]
          ELSE [res |-> "ok",
                site |-> [marked EXCEPT
                            !.n_reads = n_reads,
                            !.meth = F64Div(total_c_reads, Max(1, n_reads))]]

-----------------------------------------------------------------------------
(* Ordering: #[derive(PartialOrd)] and impl Ord *)

IntCmp(x, y) == IF x < y THEN "Less" ELSE IF x > y THEN "Greater" ELSE "Equal"

\* Vec<u8> order: the first differing byte decides, a proper prefix is Less.
RECURSIVE BytesCmp(_, _, _)
BytesCmp(a, b, i) ==
    IF i > Len(a) \/ i > Len(b) THEN IntCmp(Len(a), Len(b))
    ELSE IF a[i] # b[i] THEN IntCmp(ByteOf(a[i]), ByteOf(b[i]))
    ELSE BytesCmp(a, b, i + 1)

\* f64::partial_cmp: None when a side is NaN.
F64PartialCmp(x, y) ==
    IF is_nan(x) \/ is_nan(y) THEN "None" ELSE IntCmp(x.n * y.d, y.n * x.d)

\* The derived partial_cmp: the fields in declaration order, the first
\* result other than Some(Equal) is returned.
partial_cmp(a, b) ==
    LET c1 == BytesCmp(a.chrom, b.chrom, 1)
        c2 == IntCmp(a.pos, b.pos)
        c3 == IntCmp(ByteOf(a.strand), ByteOf(b.strand))
        c4 == BytesCmp(a.context, b.context, 1)
        c5 == F64PartialCmp(a.meth, b.meth)
        c6 == IntCmp(a.n_reads, b.n_reads)
    IN  IF c1 # "Equal" THEN c1
        ELSE IF c2 # "Equal" THEN c2
        ELSE IF c3 # "Equal" THEN c3
        ELSE IF c4 # "Equal" THEN c4
        ELSE IF c5 # "Equal" THEN c5
        ELSE c6

\* Ord::cmp: self.partial_cmp(&other).unwrap().
cmp(a, b) ==
    IF partial_cmp(a, b) = "None" THEN [res |-> "panic", v |-> "None"]
    ELSE [res |-> "ok", v |-> partial_cmp(a, b)]

-----------------------------------------------------------------------------
(* Display *)

DIGITER == 1000000

RECURSIVE FmtU64(_)
\* The decimal digits of n, no sign and no leading zero.
FmtU64(n) == IF n < 10 THEN <<DigitChar(n)>> ELSE FmtU64(n \div 10) \o <<DigitChar(n % 10)>>

\* FmtFraction without the stop at the last non-zero decimal.
RECURSIVE FmtFraction_Padded(_, _)
FmtFraction_Padded(frac, unit) ==
    IF unit = 1 THEN <<>>
    ELSE <<DigitChar(frac \div (unit \div 10))>>
         \o FmtFraction_Padded(frac % (unit \div 10), unit \div 10)

\* The decimals of frac / unit, up to the last non-zero one.
RECURSIVE FmtFraction(_, _)
FmtFraction(frac, unit) ==
    IF frac = 0 THEN <<>>
    ELSE <<DigitChar(frac \div (unit \div 10))>> \o FmtFraction(frac % (unit \div 10), unit \div 10)

\* (meth * DIGITER).round(): the number of millionths nearest to meth.
Quantize(meth) ==
    LET g == GCD(DIGITER, meth.d)
    IN  RoundHalfAway(meth.n * (DIGITER \div g), meth.d \div g)

\* Display of m = (meth * DIGITER).round() / DIGITER: the shortest decimal
\* that reads back as m, never in exponent form; NaN prints as NaN.
FmtF64(meth) ==
    IF is_nan(meth) THEN <<"N", "a", "N">>
    ELSE LET k == Quantize(meth)
             body == FmtU64(Abs(k) \div DIGITER)
                     \o (IF Abs(k) % DIGITER = 0 THEN <<>>
                         ELSE <<".">> \o FmtFraction(Abs(k) % DIGITER, DIGITER))
         IN  IF k < 0 THEN <<"-">> \o body ELSE body

\* impl Display for MSite.
fmt(s) ==
    Join(<<s.chrom, FmtU64(s.pos), <<s.strand>>, s.context, FmtF64(s.meth), FmtU64(s.n_reads)>>,
         <<TAB>>)

-----------------------------------------------------------------------------
(* Inputs *)

CHR1 == <<"c", "h", "r", "1">>
CHR2 == <<"c", "h", "r", "2">>
CPG == <<"C", "p", "G">>
CHH == <<"C", "H", "H">>

\* The least count that `as f64` rounds up, and the counts around U64_MAX.
InexactCount == 2^MantBits + 3

PosTokens ==
    {<<"0">>, <<"1">>, <<"0", "1">>, <<"+", "1">>, <<"-", "1", "0">>,
     FmtU64(U64_MAX), FmtU64(U64_MAX + 1)}
StrandTokens == {<<"+">>, <<"-">>, <<"+", "-">>}
ContextTokens == {CPG, CHH, CPG \o <<"x">>, CPG \o <<"x", "x">>, <<"x">>}
MethTokens ==
    {<<"0">>, <<"1">>, <<"0", ".", "5">>, <<"0", ".", "5", "0">>,
     <<"0", ".", "0", "1", "5", "6", "2", "5">>, <<"1", ".", "2">>,
     <<"-", "0", ".", "5">>, <<"N", "a", "N">>, <<"x">>}
NReadsTokens == {<<"0">>, <<"1", "0">>, <<"+", "1", "0">>, <<"x">>, FmtU64(InexactCount)}

Separators == {<<TAB>>, <<SPACE>>, <<SPACE, TAB>>}

\* The lines given to build on its own: every choice of the six tokens,
\* cut after any number of them, under each separator.
ParseLines ==
    {Join(SubSeq(<<CHR1, p, s, c, m, n>>, 1, k), sep) :
        p \in PosTokens, s \in StrandTokens, c \in ContextTokens,
        m \in MethTokens, n \in NReadsTokens, k \in 0..6, sep \in Separators}

\* Two records that are mates, and what replaces one field of either.
BaseFields ==
    {<<CHR1, <<"0">>, <<"+">>, CPG, <<"0", ".", "5">>, <<"1", "0">>>>,
     <<CHR1, <<"1">>, <<"-">>, CPG, <<"1">>, <<"1", "0">>>>}

FieldTokens ==
    <<{CHR2},
      {FmtU64(U64_MAX - 1), FmtU64(U64_MAX)},
      {<<"+">>, <<"-">>},
      {CHH, <<"C", "p">>, CPG \o <<"x">>, CPG \o <<"x", "x">>, <<"x">>},
      {<<"0">>, <<"N", "a", "N">>},
      {<<"0">>, <<"1">>, FmtU64(InexactCount), FmtU64(U64_MAX)}>>

OpLines ==
    {Join(f, <<TAB>>) : f \in BaseFields}
    \cup UNION {{Join([f EXCEPT ![i] = t], <<TAB>>) : f \in BaseFields, t \in FieldTokens[i]} :
                  i \in 1..6}

\* The sites a caller can hold after construction: new() and what build
\* returns as Ok.
ConstructedSites == {new} \cup {build(l).site : l \in {m \in OpLines : build(m).res = "ok"}}

-----------------------------------------------------------------------------
(* The state machine *)

VARIABLES
    self,             \* the site the methods are called on
    other,            \* the site passed as `other` / `second`
    line,             \* the text build was last called with
    out,              \* the last call: its name, how it ended, what it returned
    nops,             \* number of calls that changed self so far
    overflow_checks   \* the build profile: integer overflow panics, or wraps

vars == <<self, other, line, out, nops, overflow_checks>>

\* The record of a call on site pre: res is "ok", "err" or "panic".
Returned(op, pre, res) ==
    [op |-> op, pre |-> pre, res |-> res, msg |-> "", flag |-> FALSE, count |-> 0,
     ord |-> "", text |-> <<>>]

NoCall == Returned("none", new, "ok")

\* A panic unwinds out of the caller: nothing is called after it.
Running == out.res # "panic"

Init ==
    /\ self \in ConstructedSites
    /\ other \in ConstructedSites
    /\ line = <<>>
    /\ out = NoCall
    /\ nops = 0
    /\ overflow_checks \in BOOLEAN

InitParse ==
    /\ self = new
    /\ other = new
    /\ line = <<>>
    /\ out = NoCall
    /\ nops = 0
    /\ overflow_checks \in BOOLEAN

\* self = MSite::build(&l) for a caller that keeps its site on Err.
Build ==
    /\ Running
    /\ nops = 0
    /\ \E l \in ParseLines :
        /\ line' = l
        /\ self' = IF build(l).res = "ok" THEN build(l).site ELSE self
        /\ out' = [Returned("build", self, build(l).res) EXCEPT !.msg = build(l).msg]
    /\ nops' = nops + 1
    /\ UNCHANGED <<other, overflow_checks>>

\* self.n_umeth()
NUmeth ==
    /\ Running
    /\ out' = [Returned("n_umeth", self, n_umeth(self, overflow_checks).res)
                 EXCEPT !.count = n_umeth(self, overflow_checks).v]
    /\ UNCHANGED <<self, other, line, nops, overflow_checks>>

\* self.is_mate_of(&other)
IsMateOf ==
    /\ Running
    /\ out' = [Returned("is_mate_of", self, is_mate_of(self, other, overflow_checks).res)
                 EXCEPT !.flag = is_mate_of(self, other, overflow_checks).v]
    /\ UNCHANGED <<self, other, line, nops, overflow_checks>>

\* self.add(&other)
Add ==
    /\ Running
    /\ nops < MaxOps
    /\ self' = add(self, other, overflow_checks).site
    /\ out' = Returned("add", self, add(self, other, overflow_checks).res)
    /\ nops' = nops + 1
    /\ UNCHANGED <<other, line, overflow_checks>>

\* self.set_unmutated()
SetUnmutated ==
    /\ Running
    /\ nops < MaxOps
    /\ self' = set_unmutated(self)
    /\ out' = Returned("set_unmutated", self, "ok")
    /\ nops' = nops + 1
    /\ UNCHANGED <<other, line, overflow_checks>>

\* self.cmp(&other)
Cmp ==
    /\ Running
    /\ out' = [Returned("cmp", self, cmp(self, other).res) EXCEPT !.ord = cmp(self, other).v]
    /\ UNCHANGED <<self, other, line, nops, overflow_checks>>

\* format!("{}", self)
Fmt ==
    /\ Running
    /\ out' = [Returned("fmt", self, "ok") EXCEPT !.text = fmt(self)]
    /\ UNCHANGED <<self, other, line, nops, overflow_checks>>

Next == NUmeth \/ IsMateOf \/ Add \/ SetUnmutated \/ Cmp \/ Fmt

Spec == Init /\ [][Next]_vars

NextParse == Build \/ NUmeth \/ SetUnmutated \/ Fmt

SpecParse == InitParse /\ [][NextParse]_vars

-----------------------------------------------------------------------------
(* Properties of build (checked under SpecParse) *)

Tokens == split_whitespace(line)

\* What is wrong with field k of the line, if anything.
Fault(k) ==
    IF Len(Tokens) < k THEN "missing"
    ELSE IF k \in {2, 6} /\ ~ParseU64(Tokens[k]).ok THEN "invalid"
    ELSE IF k = 3 /\ ~ParseChar(Tokens[k]).ok THEN "invalid"
    ELSE IF k = 5 /\ ~ParseF64(Tokens[k]).ok THEN "invalid"
    ELSE IF k = 5 /\ ParseF64(Tokens[k]).v.d # 0
              /\ (ParseF64(Tokens[k]).v.n < 0 \/ ParseF64(Tokens[k]).v.n > ParseF64(Tokens[k]).v.d)
      THEN "range"
    ELSE "none"

\* The first thing wrong with the line, reading its fields in order.
FirstFault ==
    LET bad == {k \in 1..6 : Fault(k) # "none"}
    IN  IF bad = {} THEN "none" ELSE Fault(CHOOSE k \in bad : \A j \in bad : k <= j)

\* The line is not a well-formed record.
Malformed == \E k \in 1..6 : Fault(k) # "none"

\* C1 as stated: build returns Err, and never panics, for every line that
\* is not a well-formed record.
C1_ErrOnEveryMalformedLine ==
    (out.op = "build" /\ Malformed) => out.res = "err"

\* C1 as amended: build returns Err when the first fault of the line is a
\* missing token or a meth outside [0, 1], panics when it is a token that
\* does not convert, and returns Ok when there is no fault.
C1_ErrOrPanicByFirstFault ==
    out.op = "build" =>
        out.res = (CASE FirstFault = "none" -> "ok"
                     [] FirstFault = "invalid" -> "panic"
                     [] OTHER -> "err")

\* build("chr1 -10 + CpG 0 0"), the line of tests::build_with_invalid_position.
C1_Witness ==
    /\ out.op = "build"
    /\ out.res = "panic"
    /\ Tokens = <<CHR1, <<"-", "1", "0">>, <<"+">>, CPG, <<"0">>, <<"0">>>>

\* meth is a number of the interval [0.0, 1.0].
InUnitInterval(meth) == meth.d > 0 /\ 0 <= meth.n /\ meth.n <= meth.d

\* C2 as stated: a meth token that parses to a value below 0.0 or above 1.0
\* makes build return the out-of-range error, and every site build returns
\* as Ok has 0.0 <= meth <= 1.0 (never NaN).
C2_MethRangeEnforced ==
    out.op = "build" =>
        /\ FirstFault = "range" => (out.res = "err" /\ out.msg = "methylation level not in range")
        /\ out.res = "ok" => InUnitInterval(self.meth)

\* The site in self is the one build returned for line.
Built == nops = 1 /\ build(line).res = "ok"

\* C5 as stated: is_mutated() is false right after construction, by new()
\* and by every successful build().
C5_UnmutatedAfterConstruction ==
    out.op \in {"none", "build"} => ~is_mutated(self)

\* C5 as amended: is_mutated() is false for new(); for a site build returns
\* as Ok it is true exactly when the context token ends with the byte 'x'.
C5_MutatedIffTokenEndsInX ==
    /\ out.op = "none" => ~is_mutated(self)
    /\ (out.op = "build" /\ out.res = "ok") =>
          (is_mutated(self) <=> Tokens[4][Len(Tokens[4])] = "x")

C5_Witness ==
    out.op = "build" /\ out.res = "ok" /\ Tokens[4] = CPG \o <<"x">> /\ is_mutated(self)

\* Decimal digits without a sign or a superfluous leading zero.
CanonicalDigits(t) == t # <<>> /\ AllDigits(t) /\ (Len(t) = 1 \/ t[1] # "0")

\* A decimal in minimal form with at most 6 decimal digits.
MinimalDecimal(t) ==
    \E k \in 1..Len(t) :
        LET ip == SubSeq(t, 1, k)
            rest == SubSeq(t, k + 1, Len(t))
        IN  /\ CanonicalDigits(ip)
            /\ \/ rest = <<>>
               \/ /\ Len(rest) \in 2..7
                  /\ rest[1] = "."
                  /\ AllDigits(Tail(rest))
                  /\ rest[Len(rest)] # "0"

\* The six fields of the line are separated by single tabs.
TabSeparated == Len(Tokens) = 6 /\ line = Join(Tokens, <<TAB>>)

\* C7 as stated: formatting the site built from a tab-separated line whose
\* meth is in minimal form gives the line back, and for any separators the
\* output is the same six fields joined by single tabs.
C7_RoundTrip ==
    (out.op = "fmt" /\ Built /\ MinimalDecimal(Tokens[5])) =>
        /\ TabSeparated => out.text = line
        /\ out.text = Join(SubSeq(Tokens, 1, 6), <<TAB>>)

\* C7 as amended: the line comes back when, in addition, its pos and
\* n_reads tokens are plain decimal digits without '+' or leading zeros; in
\* every case the output is six fields joined by single tabs, chrom, strand
\* and context being the input's tokens and pos, meth and n_reads the
\* canonical text of the parsed values.
C7_RoundTripOfCanonicalLines ==
    (out.op = "fmt" /\ Built) =>
        LET fields == split_whitespace(out.text)
            canonical == /\ CanonicalDigits(Tokens[2])
                         /\ MinimalDecimal(Tokens[5])
                         /\ CanonicalDigits(Tokens[6])
        IN  /\ Len(fields) = 6
            /\ out.text = Join(fields, <<TAB>>)
            /\ fields[1] = Tokens[1] /\ fields[3] = Tokens[3] /\ fields[4] = Tokens[4]
            /\ ParseU64(fields[2]) = ParseU64(Tokens[2]) /\ CanonicalDigits(fields[2])
            /\ ParseU64(fields[6]) = ParseU64(Tokens[6]) /\ CanonicalDigits(fields[6])
            /\ canonical => fields = SubSeq(Tokens, 1, 6)
            /\ (canonical /\ TabSeparated) => out.text = line

\* A tab-separated line with a 6-decimal meth, formatted back to itself.
C7_Witness ==
    /\ out.op = "fmt" /\ Built /\ TabSeparated
    /\ Tokens[5] = <<"0", ".", "0", "1", "5", "6", "2", "5">>
    /\ Tokens[6] = <<"1", "0">>
    /\ out.text = line

-----------------------------------------------------------------------------
(* Properties of the operations on constructed sites (checked under Spec) *)

\* C3 as stated: on every site reached from new() or a successful build()
\* by add and set_unmutated, n_meth() <= n_reads, n_umeth() does not
\* underflow, and n_umeth() + n_meth() = n_reads.
C3_CountsAddUp ==
    out.op = "n_umeth" =>
        /\ n_meth(self) <= self.n_reads
        /\ out.res = "ok"
        /\ out.count + n_meth(self) = self.n_reads

\* C4: add sets the marker exactly when self or other carried it: an
\* unmutated self stays unmutated under an unmutated other, becomes mutated
\* under a mutated other, a mutated self stays mutated whatever other is,
\* and the only change to the context is one 'x' appended to an unmutated
\* self.
C4_MutationIsSticky ==
    out.op = "add" =>
        /\ is_mutated(self) <=> (is_mutated(out.pre) \/ is_mutated(other))
        /\ self.context = IF ~is_mutated(out.pre) /\ is_mutated(other)
                            THEN out.pre.context \o <<"x">>
                            ELSE out.pre.context

\* A site whose marker had been removed is merged with a mutated other.
C4_Witness ==
    /\ out.op = "add" /\ out.res = "ok" /\ nops = 2
    /\ ~is_mutated(out.pre) /\ is_mutated(other)
    /\ self.context = CPG \o <<"x">>

\* C6 as stated: a.add(b) never fails, keeps a.chrom, a.pos and a.strand,
\* sets a.n_reads to the sum of the two read counts and a.meth to
\* (a.n_meth() + b.n_meth()) / max(1, a.n_reads), the quotient taken in f64.
C6_AddSumsCounts ==
    out.op = "add" =>
        /\ out.res = "ok"
        /\ self.chrom = out.pre.chrom /\ self.pos = out.pre.pos /\ self.strand = out.pre.strand
        /\ self.n_reads = out.pre.n_reads + other.n_reads
        /\ self.meth = F64Div(n_meth(out.pre) + n_meth(other), Max(1, self.n_reads))

\* C8 as stated: cmp returns for every pair of sites that build returned
\* or add produced, and returns Equal exactly when the six fields are equal.
C8_CmpIsTotal ==
    out.op = "cmp" =>
        /\ out.res = "ok"
        /\ out.ord = "Equal" <=> self = other

\* C9 as stated: is_mate_of never fails and is true exactly when
\* b.pos = a.pos + 1, both are CpG sites, a is on '+' and b on '-'.
C9_MateIffAdjacentCpG ==
    out.op = "is_mate_of" =>
        /\ out.res = "ok"
        /\ out.flag <=> /\ other.pos = self.pos + 1
                        /\ is_cpg(self) /\ is_cpg(other)
                        /\ self.strand = "+" /\ other.strand = "-"

\* C10 as stated: after set_unmutated, is_mutated() is false, the context
\* is one byte shorter if the site was mutated and unchanged otherwise, and
\* no other field has changed.
C10_SetUnmutatedClears ==
    out.op = "set_unmutated" =>
        /\ ~is_mutated(self)
        /\ Len(self.context) = Len(out.pre.context) - (IF is_mutated(out.pre) THEN 1 ELSE 0)
        /\ [self EXCEPT !.context = out.pre.context] = out.pre

EndsInXX(context) ==
    Len(context) >= 2 /\ context[Len(context)] = "x" /\ context[Len(context) - 1] = "x"

\* C10 as amended: set_unmutated removes exactly the last byte of a mutated
\* context and nothing else; is_mutated() is false afterwards unless the
\* context ended in two 'x' bytes, which only a context token given to
\* build can make it do.
C10_SetUnmutatedPopsOneByte ==
    out.op = "set_unmutated" =>
        /\ self.context = IF is_mutated(out.pre)
                            THEN SubSeq(out.pre.context, 1, Len(out.pre.context) - 1)
                            ELSE out.pre.context
        /\ [self EXCEPT !.context = out.pre.context] = out.pre
        /\ is_mutated(self) <=> EndsInXX(out.pre.context)

\* set_unmutated, as the second call, on a site that carries the marker.
C10_Witness ==
    /\ out.op = "set_unmutated" /\ nops = 2
    /\ is_mutated(out.pre) /\ ~is_mutated(self)
    /\ out.pre.context = CPG \o <<"x">>
    /\ is_mutated(other)

====
